---------------------------- MODULE Spec2Model ----------------------------
(***************************************************************************)
(* A model of the tableau-twilio-webhooks Flask application                *)
(* (src/webhooks.py) and of its Broadcast Updater                          *)
(* (src/modules/broadcast.py).                                             *)
(*                                                                         *)
(* Module load of webhooks.py is modelled step by step (environment check, *)
(* token claims, vendor client, app.run); after it the server accepts      *)
(* requests, each handled by a worker thread that walks through the        *)
(* handler's statements.  Vendor SDK calls (tableauserverclient, twilio)   *)
(* are environment steps that either return or raise.                      *)
(***************************************************************************)
EXTENDS Integers, Sequences, FiniteSets, TLC

(***************************************************************************)
(* Bounds of the model.                                                    *)
(***************************************************************************)
\* Requests the server accepts in one behaviour.
MaxRequests == 2
\* POST /notifier requests among them.
MaxBatches == 1
\* Clock ticks (minutes) the clock may advance.
MaxTime == 6
\* Items per page of the data-source listing call.  tableauserverclient's
\* default is 100; it is scaled down so that a site larger than one page fits.
PageSize == 2
\* Largest number of data sources on the site: one more than a page.
MaxSources == PageSize + 1
\* Largest number of data sources on the site while two requests run at once.
ConcSources == 1
\* Invocations of the Broadcast Updater in one behaviour.
MaxUpdates == 2
\* Times the text layer of one log handle overflows during its request (each
\* takes some 8 KiB of text).
MaxFlushes == 1

(***************************************************************************)
(* Program constants.                                                      *)
(***************************************************************************)
\* datetime.timedelta(minutes=5): life time of the token claims, in minutes.
TTL == 5

\* The required environment variables, in the order of the list.
env_vars ==
  << "TABLEAU_USERNAME", "TABLEAU_PAT_NAME", "TABLEAU_PAT_SECRET",
     "TABLEAU_CA_CLIENT", "TABLEAU_CA_SECRET_ID", "TABLEAU_CA_SECRET_VALUE",
     "TABLEAU_SITENAME", "TABLEAU_SERVER", "TWILIO_ACCOUNT_SID",
     "TWILIO_AUTH_TOKEN", "TWILIO_FROM_NUMBER", "TWILIO_TO_NUMBER",
     "WHATSAPP_FROM", "WHATSAPP_TO" >>

EnvNames == { env_vars[i] : i \in 1..Len(env_vars) }

\* The value an environment variable holds when it is set.
EnvValue(name) == << "value", name >>

\* Worker threads: one for the sequential server, two for concurrent requests.
SeqThreads == {1}
ConcThreads == {1, 2}

Routes == { "/", "/broadcast", "/notifier" }
Methods == { "GET", "POST", "PUT", "DELETE", "HEAD", "OPTIONS" }
WorkbookIds == { "wb1", "wb2" }

None == [none |-> TRUE]

VARIABLES
  env_dict,       \* dict(os.environ) restricted to the required names
  spc,            \* position of module load: check, aborted, claims, client, app, serving
  checkIdx,       \* index of the environment check loop
  startupError,   \* variable named by the RuntimeError, "" when none was raised
  now,            \* the clock
  uuidCount,      \* uuid4 values drawn so far
  header_data,    \* JWT header dictionary, or None
  payload_data,   \* JWT claims dictionary, or None
  twilioClient,   \* whether the vendor client was created
  nreq,           \* requests accepted so far
  nbatch,         \* POST /notifier requests accepted so far
  th,             \* per worker thread: request, handler position, locals, response
  tokens,         \* tokens printed by jwt.encode, with request and issue time
  log,            \* content of log.txt
  sent,           \* vendor calls performed
  upd,            \* the running Broadcast Updater call: position and locals
  ucalls,         \* calls the Broadcast Updater made to libs
  nupd            \* Broadcast Updater invocations so far

vars == << env_dict, spc, checkIdx, startupError, now, uuidCount, header_data,
           payload_data, twilioClient, nreq, nbatch, th, tokens, log, sent,
           upd, ucalls, nupd >>

Min(a, b) == IF a < b THEN a ELSE b

(***************************************************************************)
(* Module load: webhooks.py lines 10-68 and 166-167.                       *)
(***************************************************************************)
\* env_dict[vars] does not raise KeyError.
EnvPresent(i) == env_vars[i] \in DOMAIN env_dict

\* A loop that checks every other variable only.
NextIndexSkip(i) == i + 2

\* The for loop's step to the next variable.
NextIndex(i) == i + 1

\* One iteration of the check loop whose variable is available.
CheckPresent ==
  /\ spc = "check"
  /\ checkIdx <= Len(env_vars)
  /\ EnvPresent(checkIdx)
  /\ checkIdx' = NextIndex(checkIdx)
  /\ spc' = IF NextIndex(checkIdx) > Len(env_vars) THEN "claims" ELSE "check"
  /\ UNCHANGED << env_dict, startupError, now, uuidCount, header_data,
                  payload_data, twilioClient, nreq, nbatch, th, tokens, log,
                  sent, upd, ucalls, nupd >>

\* One iteration whose variable is missing: RuntimeError naming it.
CheckMissing ==
  /\ spc = "check"
  /\ checkIdx <= Len(env_vars)
  /\ ~EnvPresent(checkIdx)
  /\ startupError' = env_vars[checkIdx]
  /\ spc' = "aborted"
  /\ UNCHANGED << env_dict, checkIdx, now, uuidCount, header_data,
                  payload_data, twilioClient, nreq, nbatch, th, tokens, log,
                  sent, upd, ucalls, nupd >>

\* datetime.datetime.utcnow() + datetime.timedelta(minutes=5)
Datetime(t) == << "datetime", t >>

\* str(uuid.uuid4()): a value not drawn before.
Uuid(n) == << "uuid", n >>

HeaderData(e) ==
  [ iss |-> e["TABLEAU_CA_CLIENT"], kid |-> e["TABLEAU_CA_SECRET_ID"],
    alg |-> "HS256" ]

PayloadData(e, t, n) ==
  [ iss |-> e["TABLEAU_CA_CLIENT"], sub |-> e["TABLEAU_USERNAME"],
    aud |-> "tableau", exp |-> Datetime(t + TTL), jti |-> Uuid(n),
    scp |-> << "tableau:content:read", "tableau:workbooks:create" >> ]

\* header_data, payload_data and connected_app_secret are built at module level.
BuildClaims ==
  /\ spc = "claims"
  /\ header_data' = HeaderData(env_dict)
  /\ payload_data' = PayloadData(env_dict, now, uuidCount + 1)
  /\ uuidCount' = uuidCount + 1
  /\ spc' = "client"
  /\ UNCHANGED << env_dict, checkIdx, startupError, now, twilioClient, nreq,
                  nbatch, th, tokens, log, sent, upd, ucalls, nupd >>

\* twilioClient = Client(twilioSID, twilioAuthToken) and the four numbers.
CreateClient ==
  /\ spc = "client"
  /\ twilioClient' = TRUE
  /\ spc' = "app"
  /\ UNCHANGED << env_dict, checkIdx, startupError, now, uuidCount,
                  header_data, payload_data, nreq, nbatch, th, tokens, log,
                  sent, upd, ucalls, nupd >>

\* app = Flask(__name__), the routes, app.run().
AppRun ==
  /\ spc = "app"
  /\ spc' = "serving"
  /\ UNCHANGED << env_dict, checkIdx, startupError, now, uuidCount,
                  header_data, payload_data, twilioClient, nreq, nbatch, th,
                  tokens, log, sent, upd, ucalls, nupd >>

connected_app_secret == env_dict["TABLEAU_CA_SECRET_VALUE"]
fromNumber == env_dict["TWILIO_FROM_NUMBER"]
toNumber == env_dict["TWILIO_TO_NUMBER"]
fromWhatsApp == env_dict["WHATSAPP_FROM"]
toWhatsApp == env_dict["WHATSAPP_TO"]

\* The clock advances while the server runs.
Tick ==
  /\ spc = "serving"
  /\ now < MaxTime
  /\ now' = now + 1
  /\ UNCHANGED << env_dict, spc, checkIdx, startupError, uuidCount,
                  header_data, payload_data, twilioClient, nreq, nbatch, th,
                  tokens, log, sent, upd, ucalls, nupd >>


(***************************************************************************)
(* PyJWT: jwt.encode and jwt.decode as broadcast() calls them.             *)
(***************************************************************************)
\* timegm(exp.utctimetuple()): a datetime claim becomes an integer timestamp.
Timestamp(dt) == dt[2]

\* HMAC-SHA256 of the signing input under the key.
Sign(key, header, payload) == << "HS256", key, header, payload >>

\* jwt.encode(payload, key, headers): the given headers are merged over
\* typ/alg, a datetime exp is converted, and the two segments are signed.
JwtEncode(payload, key, headers) ==
  LET h == [ typ |-> "JWT", alg |-> headers.alg, iss |-> headers.iss,
             kid |-> headers.kid ]
      p == [ payload EXCEPT !.exp = Timestamp(@) ]
  IN  [ header |-> h, payload |-> p, sig |-> Sign(key, h, p) ]

\* jwt.decode(jwt, key, audience, algorithms): algorithm, signature, exp and
\* aud are validated in this order; the claims are returned as stored.  A
\* token is expired from its exp on (exp <= now, no leeway).
JwtDecode(token, key, audience, algorithms, t) ==
  IF token.header.alg # algorithms
    THEN [ ok |-> FALSE, error |-> "InvalidAlgorithmError", claims |-> None ]
  ELSE IF token.sig # Sign(key, token.header, token.payload)
    THEN [ ok |-> FALSE, error |-> "InvalidSignatureError", claims |-> None ]
  ELSE IF token.payload.exp <= t
    THEN [ ok |-> FALSE, error |-> "ExpiredSignatureError", claims |-> None ]
  ELSE IF token.payload.aud # audience
    THEN [ ok |-> FALSE, error |-> "InvalidAudienceError", claims |-> None ]
  ELSE [ ok |-> TRUE, error |-> "", claims |-> token.payload ]

(***************************************************************************)
(* Flask: routing and responses.                                           *)
(***************************************************************************)
Response(status, body, location) ==
  [ status |-> status, body |-> body, location |-> location ]

Success == Response(200, "200 SUCCESS", "")
RedirectIndex == Response(302, "", "/")
MethodNotSupported == Response(200, "400 Bad Request: method not supported", "")
MethodNotAllowed == Response(405, "405 Method Not Allowed", "")
OptionsResponse == Response(200, "", "")
ServerError == Response(500, "500 Internal Server Error", "")
IndexPage ==
  Response(200,
           "<h1>Notifier API Index</h1>\n<ul><li>/notifier <strong>POST</strong> - receives incoming Tableau Server webhooks to create datasource failure notifications</li></ul>",
           "")
NoResponse == Response(0, "", "")

\* The exception propagating in a request: the call that raised it, with the
\* data source it was made for, and (cstep, cds) the exception that was
\* propagating when it was raised, its __context__.
Failure(ds, step) == [ ds |-> ds, step |-> step, cds |-> 0, cstep |-> "" ]
NoFailure == Failure(0, "")

\* The exception f raised while the exception g was propagating.
During(f, g) == [ ds |-> f.ds, step |-> f.step, cds |-> g.ds, cstep |-> g.step ]

\* The methods argument of each @app.route (GET alone when it is not given).
RouteMethods(route) ==
  IF route = "/" THEN { "GET" } ELSE { "GET", "POST" }

\* The methods the URL rule accepts: HEAD comes with GET, OPTIONS is automatic.
AllowedMethods(route) ==
  RouteMethods(route)
    \cup (IF "GET" \in RouteMethods(route) THEN { "HEAD" } ELSE {})
    \cup { "OPTIONS" }

\* The view function of a route, as the handler's first position.
View(route) ==
  CASE route = "/" -> "index"
    [] route = "/broadcast" -> "broadcast"
    [] route = "/notifier" -> "notify"

\* The SID field of a log line that carries none.
NoSid == << 0, 0 >>

IdleThread ==
  [ pc |-> "idle", rid |-> 0, route |-> "/", method |-> "GET",
    entered |-> FALSE, resp |-> NoResponse, token |-> None,
    decoded |-> None, open |-> FALSE, buf |-> << >>, signedIn |-> FALSE,
    current_time |-> 0, ds |-> << >>, total |-> 0, i |-> 0, sid |-> NoSid,
    bin |-> << >>, wq |-> << >>, after |-> "", flushes |-> 0,
    failed |-> NoFailure ]

\* A request that runs the notification batch.
IsBatch(route, method) == route = "/notifier" /\ method = "POST"

\* A worker takes the next request; the URL map answers 405 for a method
\* the rule does not accept and answers OPTIONS itself, else calls the view.
\* The requests are drawn from routes x methods: up to limit requests, up
\* to batches of them POST /notifier.
AcceptFrom(t, routes, methods, limit, batches) ==
  /\ spc = "serving"
  /\ th[t].pc \in { "idle", "done" }
  /\ nreq < limit
  /\ nreq' = nreq + 1
  /\ \E route \in routes, method \in methods :
       /\ IsBatch(route, method) => nbatch < batches
       /\ nbatch' = IF IsBatch(route, method) THEN nbatch + 1 ELSE nbatch
       /\ LET r == [ IdleThread EXCEPT !.rid = nreq + 1, !.route = route,
                                       !.method = method ]
          IN  th' = [ th EXCEPT ![t] =
                IF method \notin AllowedMethods(route)
                  THEN [ r EXCEPT !.pc = "done", !.resp = MethodNotAllowed ]
                ELSE IF method = "OPTIONS"
                  THEN [ r EXCEPT !.pc = "done", !.resp = OptionsResponse ]
                ELSE [ r EXCEPT !.pc = View(route), !.entered = TRUE ] ]
  /\ UNCHANGED << env_dict, spc, checkIdx, startupError, now, uuidCount,
                  header_data, payload_data, twilioClient, tokens, log, sent,
                  upd, ucalls, nupd >>

\* Any request to any route.
Accept(t) == AcceptFrom(t, Routes, Methods, MaxRequests, MaxBatches)

\* Requests to the index.
AcceptIndex(t) == AcceptFrom(t, { "/" }, Methods, MaxRequests, 0)

\* POST /notifier requests one after the other.
AcceptBatch(t) ==
  AcceptFrom(t, { "/notifier" }, { "POST" }, MaxBatches, MaxBatches)

\* One POST /notifier per worker, the workers running side by side; the
\* requests being alike, worker t takes the t-th of them.
AcceptNotifierPost(t) ==
  /\ t = nreq + 1
  /\ AcceptFrom(t, { "/notifier" }, { "POST" }, Cardinality(ConcThreads),
                Cardinality(ConcThreads))

\* The handler returns: the worker holds the response until its next request.
Return(t, resp) ==
  th' = [ th EXCEPT ![t].pc = "done", ![t].resp = resp ]

\* index()
Index(t) ==
  /\ th[t].pc = "index"
  /\ Return(t, IndexPage)
  /\ UNCHANGED << env_dict, spc, checkIdx, startupError, now, uuidCount,
                  header_data, payload_data, twilioClient, nreq, nbatch,
                  tokens, log, sent, upd, ucalls, nupd >>

(***************************************************************************)
(* broadcast(): webhooks.py lines 76-107.                                  *)
(***************************************************************************)
\* POST: token = jwt.encode(payload_data, connected_app_secret, header_data),
\* and the token is printed.
BroadcastEncode(t) ==
  /\ th[t].pc = "broadcast"
  /\ th[t].method = "POST"
  /\ LET token == JwtEncode(payload_data, connected_app_secret, header_data)
     IN  /\ tokens' = Append(tokens, [ rid |-> th[t].rid, token |-> token,
                                       at |-> now ])
         /\ th' = [ th EXCEPT ![t].pc = "b_decode", ![t].token = token ]
  /\ UNCHANGED << env_dict, spc, checkIdx, startupError, now, uuidCount,
                  header_data, payload_data, twilioClient, nreq, nbatch, log,
                  sent, upd, ucalls, nupd >>

\* POST: decodedToken = jwt.decode(...), then return "200 SUCCESS"; an
\* exception of jwt.decode propagates and the request ends with a 500.
BroadcastDecode(t) ==
  /\ th[t].pc = "b_decode"
  /\ LET d == JwtDecode(th[t].token, connected_app_secret, payload_data.aud,
                        header_data.alg, now)
     IN  th' = [ th EXCEPT ![t].pc = "done", ![t].decoded = d,
                           ![t].resp = IF d.ok THEN Success ELSE ServerError ]
  /\ UNCHANGED << env_dict, spc, checkIdx, startupError, now, uuidCount,
                  header_data, payload_data, twilioClient, nreq, nbatch,
                  tokens, log, sent, upd, ucalls, nupd >>

\* GET: redirect(url_for("index"))
BroadcastGet(t) ==
  /\ th[t].pc = "broadcast"
  /\ th[t].method = "GET"
  /\ Return(t, RedirectIndex)
  /\ UNCHANGED << env_dict, spc, checkIdx, startupError, now, uuidCount,
                  header_data, payload_data, twilioClient, nreq, nbatch,
                  tokens, log, sent, upd, ucalls, nupd >>

\* else: return "400 Bad Request: method not supported".  Of the methods the
\* rule lets through, HEAD is the one that gets here.
BroadcastOther(t) ==
  /\ th[t].pc = "broadcast"
  /\ th[t].method \notin { "POST", "GET" }
  /\ Return(t, MethodNotSupported)
  /\ UNCHANGED << env_dict, spc, checkIdx, startupError, now, uuidCount,
                  header_data, payload_data, twilioClient, nreq, nbatch,
                  tokens, log, sent, upd, ucalls, nupd >>

(***************************************************************************)
(* notify(): webhooks.py lines 110-164.                                    *)
(*                                                                         *)
(* logFile is a text file opened for appending: a text layer that holds    *)
(* the text written until it amounts to a chunk (8192 bytes), over a       *)
(* binary buffer (of the size of a block of the file system, or more),     *)
(* over the file.  logFile.write adds its text to what the text layer      *)
(* holds; text that leaves the text layer goes to the binary buffer, and   *)
(* from there to the end of the file with a write system call, during      *)
(* which other workers run.  The lines of the log are written whole.       *)
(* What fits where depends on the length of each line: of the names and    *)
(* descriptions of the data sources, of the configured numbers, of the     *)
(* SIDs the vendor returns.  None of them is bounded, so it is a choice.   *)
(***************************************************************************)
\* One write to the log: the header line with the total, the block of a
\* data source, or the two lines with the SID of a vendor call.  The request
\* that wrote it is kept with it; the text of the timestamp is not.
LogLine(rid, kind, ds, total, sid) ==
  [ rid |-> rid, kind |-> kind, ds |-> ds, total |-> total, sid |-> sid ]

\* TextIOWrapper.write(lines) with the text buf pending, after n overflows
\* of the handle: out, the texts passed to buffer.write in turn, and buf,
\* the text pending after it.
\*  - pending and lines stay under the chunk size: all of it is pending;
\*  - they reach it exactly, or nothing is pending and the lines reach it:
\*    all of it is flushed as one text;
\*  - they exceed it: the pending text is flushed first and the lines are
\*    pending, and flushed in turn when they reach the chunk size themselves.
TextWrite(buf, lines, n) ==
  { [ out |-> << >>, buf |-> buf \o lines ] }
    \cup (IF n < MaxFlushes
            THEN { [ out |-> << buf \o lines >>, buf |-> << >> ] }
                   \cup (IF buf # << >>
                           THEN { [ out |-> << buf >>, buf |-> lines ],
                                  [ out |-> << buf, lines >>, buf |-> << >> ] }
                           ELSE {})
            ELSE {})

\* BufferedWriter.write(data) with bin in the buffer: sys, the texts given to
\* the write system call in turn, and bin, the buffer after it.
\*  - data fits in the room left: it is added to the buffer;
\*  - it does not: the buffer is written out, and data is buffered if it
\*    fits in the empty buffer, else written out too.
BinWrite(bin, data) ==
  { [ sys |-> << >>, bin |-> bin \o data ],
    [ sys |-> (IF bin = << >> THEN << >> ELSE << bin >>) \o << data >>,
      bin |-> << >> ] }
    \cup (IF bin # << >>
            THEN { [ sys |-> << bin >>, bin |-> data ] }
            ELSE {})

\* BufferedWriter.write of each text of out in turn.
RECURSIVE BinWrites(_, _)
BinWrites(bin, out) ==
  IF out = << >> THEN { [ sys |-> << >>, bin |-> bin ] }
  ELSE UNION { { [ sys |-> r.sys \o q.sys, bin |-> q.bin ] :
                   q \in BinWrites(r.bin, Tail(out)) } :
               r \in BinWrite(bin, Head(out)) }

\* logFile.close() with bin in the buffer and buf pending: the texts given
\* to the write system call in turn, by the flush of the text layer and
\* then of the buffer.
CloseWrites(bin, buf) ==
  IF buf = << >>
    THEN { IF bin = << >> THEN << >> ELSE << bin >> }
    ELSE { r.sys \o (IF r.bin = << >> THEN << >> ELSE << r.bin >>) :
             r \in BinWrite(bin, buf) }

\* The file after the first of the system calls sys.
FileAfter(lg, sys) == IF sys = << >> THEN lg ELSE lg \o Head(sys)

\* The worker r whose statement makes the system calls sys and goes on at
\* next: the first is made with the statement, the others one by one.
InWrite(r, sys, next) ==
  IF Len(sys) > 1
    THEN [ r EXCEPT !.pc = "n_write", !.wq = Tail(sys), !.after = next ]
    ELSE [ r EXCEPT !.pc = next ]

\* open("log.txt", "w"): the file is emptied.
OpenTruncate(lg) == << >>

\* open("log.txt", "a"): the file keeps its content.
OpenAppend(lg) == lg

\* server.datasources.get() without request options: the first page of the
\* listing and the pagination item with the site's total.
ListPage(total) == [ k \in 1..Min(total, PageSize) |-> k ]

\* The message of a data source: name, description and last update.
MsgStr(ds) == << "Datasource Refresh failed", ds >>

\* The calls request rid has made to the vendor.
SentBy(rid) == { c \in sent : c.rid = rid }

\* The vendor gives each created resource its own SID: here the request and
\* the number of the call within the request.
NextSid(rid) == << rid, Cardinality(SentBy(rid)) + 1 >>

\* A twilio call: messages.create or calls.create, with its arguments.
\* A message carries msgStr as its body, a call carries it inside the twiml
\* <Response><Say>...</Say></Response>.
VendorCall(rid, channel, ds, from, to, sid) ==
  [ rid |-> rid, channel |-> channel,
    body |-> [ twiml |-> channel = "call", msg |-> MsgStr(ds) ],
    from |-> from, to |-> to, sid |-> sid ]

\* An exception that leaves the handle without its lines.
RaiseDiscard(t, failed, next) ==
  th' = [ th EXCEPT ![t].pc = next, ![t].failed = During(failed, @),
                    ![t].buf = << >> ]

\* An exception propagates: the handler goes to the exit of the with block
\* it is in, position next (the sign-out inside the session, else the
\* close).  Raised in an exit, it takes the place of the one propagating.
Raise(t, failed, next) ==
  th' = [ th EXCEPT ![t].pc = next, ![t].failed = During(failed, @) ]

\* POST: the auth and server objects, open("log.txt", "a"), current_time.
NotifyOpen(t) ==
  /\ th[t].pc = "notify"
  /\ th[t].method = "POST"
  /\ log' = OpenAppend(log)
  /\ th' = [ th EXCEPT ![t].pc = "n_signin", ![t].open = TRUE,
                       ![t].buf = << >>, ![t].current_time = now ]
  /\ UNCHANGED << env_dict, spc, checkIdx, startupError, now, uuidCount,
                  header_data, payload_data, twilioClient, nreq, nbatch,
                  tokens, sent, upd, ucalls, nupd >>

\* with server.auth.sign_in(tableauAuth): signs in, or raises before the
\* block is entered.
NotifySignIn(t) ==
  /\ th[t].pc = "n_signin"
  /\ \E ok \in BOOLEAN :
       IF ok
         THEN th' = [ th EXCEPT ![t].pc = "n_get", ![t].signedIn = TRUE ]
         ELSE Raise(t, Failure(0, "sign_in"), "n_close")
  /\ UNCHANGED << env_dict, spc, checkIdx, startupError, now, uuidCount,
                  header_data, payload_data, twilioClient, nreq, nbatch,
                  tokens, log, sent, upd, ucalls, nupd >>

\* logFile.write(lines) by worker t, r being the worker with its other
\* variables as the statement leaves them: the write of the text layer, the
\* writes to the buffer it makes, the system calls of these.
LogWrite(t, r, lines, next) ==
  \E w \in TextWrite(r.buf, lines, r.flushes) :
    \E b \in BinWrites(r.bin, w.out) :
      /\ log' = FileAfter(log, b.sys)
      /\ th' = [ th EXCEPT ![t] =
                   InWrite([ r EXCEPT !.buf = w.buf, !.bin = b.bin,
                                      !.flushes = IF w.out = << >>
                                                    THEN @ ELSE @ + 1 ],
                           b.sys, next) ]

\* The next write system call of a statement that makes several: the text
\* goes to the end of the file; after the last the worker goes on.
NotifyRawWrite(t) ==
  /\ th[t].pc = "n_write"
  /\ log' = log \o Head(th[t].wq)
  /\ th' = [ th EXCEPT ![t].wq = Tail(@),
                       ![t].pc = IF Len(th[t].wq) = 1 THEN th[t].after ELSE @,
                       ![t].after = IF Len(th[t].wq) = 1 THEN "" ELSE @ ]
  /\ UNCHANGED << env_dict, spc, checkIdx, startupError, now, uuidCount,
                  header_data, payload_data, twilioClient, nreq, nbatch,
                  tokens, sent, upd, ucalls, nupd >>

\* allDatasources, PaginationItem = server.datasources.get(), then the
\* header line with PaginationItem.total_available; or get() raises.
\* The site holds any number of data sources of the set totals.
NotifyGetFrom(t, totals) ==
  /\ th[t].pc = "n_get"
  /\ \E ok \in BOOLEAN, total \in totals :
       IF ok
         THEN LogWrite(t, [ th[t] EXCEPT !.ds = ListPage(total),
                                         !.total = total, !.i = 1 ],
                       << LogLine(th[t].rid, "header", 0, total, NoSid) >>,
                       "n_loop")
         ELSE /\ Raise(t, Failure(0, "get"), "n_signout")
              /\ log' = log
  /\ UNCHANGED << env_dict, spc, checkIdx, startupError, now, uuidCount,
                  header_data, payload_data, twilioClient, nreq, nbatch,
                  tokens, sent, upd, ucalls, nupd >>

\* A site of up to MaxSources data sources.
NotifyGet(t) == NotifyGetFrom(t, 0..MaxSources)

\* A site of up to ConcSources data sources, for the concurrent requests.
NotifyGetConc(t) == NotifyGetFrom(t, 0..ConcSources)

\* for dataSource in allDatasources: msgStr is built and written to the log.
NotifyLoopBody(t) ==
  /\ th[t].pc = "n_loop"
  /\ th[t].i <= Len(th[t].ds)
  /\ LogWrite(t, th[t],
              << LogLine(th[t].rid, "datasource", th[t].ds[th[t].i], 0,
                         NoSid) >>,
              "n_sms")
  /\ UNCHANGED << env_dict, spc, checkIdx, startupError, now, uuidCount,
                  header_data, payload_data, twilioClient, nreq, nbatch,
                  tokens, sent, upd, ucalls, nupd >>

\* One vendor call of the loop body: the vendor creates the message or the
\* call and returns it with its SID, or the call raises.
SendStep(t, here, channel, from, to, next) ==
  /\ th[t].pc = here
  /\ \E ok \in BOOLEAN :
       LET ds == th[t].ds[th[t].i]
           sid == NextSid(th[t].rid)
       IN  IF ok
             THEN /\ sent' = sent \cup { VendorCall(th[t].rid, channel, ds,
                                                    from, to, sid) }
                  /\ th' = [ th EXCEPT ![t].pc = next, ![t].sid = sid ]
             ELSE /\ Raise(t, Failure(ds, channel), "n_signout")
                  /\ sent' = sent
  /\ UNCHANGED << env_dict, spc, checkIdx, startupError, now, uuidCount,
                  header_data, payload_data, twilioClient, nreq, nbatch,
                  tokens, log, upd, ucalls, nupd >>

\* The logFile.write after a vendor call: the line with the SID returned.
LogStep(t, here, channel, next, inc) ==
  /\ th[t].pc = here
  /\ LogWrite(t, [ th[t] EXCEPT !.i = @ + inc ],
              << LogLine(th[t].rid, channel, th[t].ds[th[t].i], 0,
                         th[t].sid) >>,
              next)
  /\ UNCHANGED << env_dict, spc, checkIdx, startupError, now, uuidCount,
                  header_data, payload_data, twilioClient, nreq, nbatch,
                  tokens, sent, upd, ucalls, nupd >>

\* textMessage = twilioClient.messages.create(...) from fromNumber to toNumber
NotifySms(t) ==
  SendStep(t, "n_sms", "sms", fromNumber, toNumber, "n_sms_log")

\* logFile.write(f"Text message SID: {textMessage.sid}...")
NotifySmsLog(t) == LogStep(t, "n_sms_log", "sms", "n_whatsapp", 0)

\* The chat message sent with the SMS numbers of the statement above it.
NotifyWhatsappSmsNumbers(t) ==
  SendStep(t, "n_whatsapp", "whatsapp", fromNumber, toNumber,
           "n_whatsapp_log")

\* whatsappMessage = twilioClient.messages.create(...) on the WhatsApp pair
NotifyWhatsapp(t) ==
  SendStep(t, "n_whatsapp", "whatsapp", fromWhatsApp, toWhatsApp,
           "n_whatsapp_log")

\* logFile.write(f"Whatsapp message SID: {whatsappMessage.sid}...")
NotifyWhatsappLog(t) == LogStep(t, "n_whatsapp_log", "whatsapp", "n_call", 0)

\* call = twilioClient.calls.create(...)
NotifyCall(t) ==
  SendStep(t, "n_call", "call", fromNumber, toNumber, "n_call_log")

\* logFile.write(f"Call SID: {call.sid}..."), the last statement of the loop
\* body.
NotifyCallLog(t) == LogStep(t, "n_call_log", "call", "n_loop", 1)

\* The loop is exhausted: the session's with block is left.
NotifyLoopEnd(t) ==
  /\ th[t].pc = "n_loop"
  /\ th[t].i > Len(th[t].ds)
  /\ th' = [ th EXCEPT ![t].pc = "n_signout" ]
  /\ UNCHANGED << env_dict, spc, checkIdx, startupError, now, uuidCount,
                  header_data, payload_data, twilioClient, nreq, nbatch,
                  tokens, log, sent, upd, ucalls, nupd >>

\* The exit of with server.auth.sign_in(...): server.auth.sign_out(), which
\* returns or raises; an exception of it propagates like any other.
NotifySignOut(t) ==
  /\ th[t].pc = "n_signout"
  /\ \E ok \in BOOLEAN :
       IF ok
         THEN th' = [ th EXCEPT ![t].pc = "n_close", ![t].signedIn = FALSE ]
         ELSE Raise(t, Failure(0, "sign_out"), "n_close")
  /\ UNCHANGED << env_dict, spc, checkIdx, startupError, now, uuidCount,
                  header_data, payload_data, twilioClient, nreq, nbatch,
                  tokens, log, sent, upd, ucalls, nupd >>

\* The exit of with open(...): logFile.close() flushes the text layer and
\* the buffer to the file.
NotifyClose(t) ==
  /\ th[t].pc = "n_close"
  /\ \E sys \in CloseWrites(th[t].bin, th[t].buf) :
       /\ log' = FileAfter(log, sys)
       /\ th' = [ th EXCEPT ![t] =
                    InWrite([ th[t] EXCEPT !.buf = << >>, !.bin = << >> ],
                            sys, "n_end") ]
  /\ UNCHANGED << env_dict, spc, checkIdx, startupError, now, uuidCount,
                  header_data, payload_data, twilioClient, nreq, nbatch,
                  tokens, sent, upd, ucalls, nupd >>

\* The file is closed; the handler returns "200 SUCCESS", or the exception
\* that left the blocks ends the request with a 500.
NotifyReturn(t) ==
  /\ th[t].pc = "n_end"
  /\ th' = [ th EXCEPT ![t].pc = "done", ![t].open = FALSE,
                       ![t].resp = IF th[t].failed = NoFailure
                                     THEN Success ELSE ServerError ]
  /\ UNCHANGED << env_dict, spc, checkIdx, startupError, now, uuidCount,
                  header_data, payload_data, twilioClient, nreq, nbatch,
                  tokens, log, sent, upd, ucalls, nupd >>

\* GET: redirect(url_for("index"))
NotifyGetMethod(t) ==
  /\ th[t].pc = "notify"
  /\ th[t].method = "GET"
  /\ Return(t, RedirectIndex)
  /\ UNCHANGED << env_dict, spc, checkIdx, startupError, now, uuidCount,
                  header_data, payload_data, twilioClient, nreq, nbatch,
                  tokens, log, sent, upd, ucalls, nupd >>

\* else: return "400 Bad Request: method not supported"
NotifyOther(t) ==
  /\ th[t].pc = "notify"
  /\ th[t].method \notin { "POST", "GET" }
  /\ Return(t, MethodNotSupported)
  /\ UNCHANGED << env_dict, spc, checkIdx, startupError, now, uuidCount,
                  header_data, payload_data, twilioClient, nreq, nbatch,
                  tokens, log, sent, upd, ucalls, nupd >>

(***************************************************************************)
(* update(env_dict, workbook_id): modules/broadcast.py lines 3-14.         *)
(*                                                                         *)
(* The four functions of libs are calls out of the module: each is         *)
(* recorded with its arguments and either returns a value or raises.       *)
(***************************************************************************)
JwtValues == { "jwt1", "jwt2" }
ApiKeys == { "key1", "key2" }
BroadcastLists == { {}, { "wb1" }, { "wb1", "wb2" } }

IdleUpdate ==
  [ pc |-> "idle", workbook_id |-> "", jwt |-> "", api_key |-> "",
    broadcasts |-> {}, raisedBy |-> "" ]

LibCall(n, op, args) == [ n |-> n, op |-> op, args |-> args ]

\* A caller invokes update(env_dict, workbook_id).
InvokeUpdate ==
  /\ upd.pc \in { "idle", "returned", "raised" }
  /\ nupd < MaxUpdates
  /\ nupd' = nupd + 1
  /\ \E wb \in WorkbookIds :
       upd' = [ IdleUpdate EXCEPT !.pc = "encode", !.workbook_id = wb ]
  /\ UNCHANGED << env_dict, spc, checkIdx, startupError, now, uuidCount,
                  header_data, payload_data, twilioClient, nreq, nbatch, th,
                  tokens, log, sent, ucalls >>

\* The arguments of the final call: the two flags are the literals False.
UpdateArgs(api_key, broadcasts, workbook_id) ==
  << api_key, broadcasts, workbook_id, FALSE, FALSE >>

\* A call of libs raised inside a try whose except passes: update goes on
\* with the next statement.
OnRaiseSwallow(u, op) ==
  [ u EXCEPT !.raisedBy = op,
             !.pc = CASE op = "encode" -> "auth"
                      [] op = "auth" -> "get_broadcasts"
                      [] op = "get_broadcasts" -> "update_broadcast"
                      [] OTHER -> "returned" ]

\* A call of libs raised: nothing catches it, update is left.
OnRaise(u, op) == [ u EXCEPT !.pc = "raised", !.raisedBy = op ]

\* jwt = connected_apps.encode(env_dict)
UpdateEncode ==
  /\ upd.pc = "encode"
  /\ ucalls' = Append(ucalls, LibCall(nupd, "encode", << env_dict >>))
  /\ \E ok \in BOOLEAN, v \in JwtValues :
       upd' = IF ok THEN [ upd EXCEPT !.pc = "auth", !.jwt = v ]
                    ELSE OnRaise(upd, "encode")
  /\ UNCHANGED << env_dict, spc, checkIdx, startupError, now, uuidCount,
                  header_data, payload_data, twilioClient, nreq, nbatch, th,
                  tokens, log, sent, nupd >>

\* api_key = tableau_rest.auth(env_dict, jwt)
UpdateAuth ==
  /\ upd.pc = "auth"
  /\ ucalls' = Append(ucalls, LibCall(nupd, "auth", << env_dict, upd.jwt >>))
  /\ \E ok \in BOOLEAN, v \in ApiKeys :
       upd' = IF ok THEN [ upd EXCEPT !.pc = "get_broadcasts", !.api_key = v ]
                    ELSE OnRaise(upd, "auth")
  /\ UNCHANGED << env_dict, spc, checkIdx, startupError, now, uuidCount,
                  header_data, payload_data, twilioClient, nreq, nbatch, th,
                  tokens, log, sent, nupd >>

\* broadcasts = tableau_rest.get_broadcasts(api_key)
UpdateGetBroadcasts ==
  /\ upd.pc = "get_broadcasts"
  /\ ucalls' = Append(ucalls,
                      LibCall(nupd, "get_broadcasts", << upd.api_key >>))
  /\ \E ok \in BOOLEAN, v \in BroadcastLists :
       upd' = IF ok THEN [ upd EXCEPT !.pc = "update_broadcast",
                                      !.broadcasts = v ]
                    ELSE OnRaise(upd, "get_broadcasts")
  /\ UNCHANGED << env_dict, spc, checkIdx, startupError, now, uuidCount,
                  header_data, payload_data, twilioClient, nreq, nbatch, th,
                  tokens, log, sent, nupd >>

\* tableau_rest.update_broadcast(api_key, broadcasts, workbook_id, False, False)
UpdateBroadcast ==
  /\ upd.pc = "update_broadcast"
  /\ ucalls' = Append(ucalls,
                      LibCall(nupd, "update_broadcast",
                              UpdateArgs(upd.api_key, upd.broadcasts,
                                         upd.workbook_id)))
  /\ \E ok \in BOOLEAN :
       upd' = IF ok THEN [ upd EXCEPT !.pc = "returned" ]
                    ELSE OnRaise(upd, "update_broadcast")
  /\ UNCHANGED << env_dict, spc, checkIdx, startupError, now, uuidCount,
                  header_data, payload_data, twilioClient, nreq, nbatch, th,
                  tokens, log, sent, nupd >>

(***************************************************************************)
(* Specifications.                                                         *)
(***************************************************************************)
AllEnv == [ v \in EnvNames |-> EnvValue(v) ]

\* The process starts with any subset of the required variables set.
Init ==
  /\ \E S \in SUBSET EnvNames : env_dict = [ v \in S |-> EnvValue(v) ]
  /\ spc = "check"
  /\ checkIdx = 1
  /\ startupError = ""
  /\ now = 0
  /\ uuidCount = 0
  /\ header_data = None
  /\ payload_data = None
  /\ twilioClient = FALSE
  /\ nreq = 0
  /\ nbatch = 0
  /\ th = [ t \in SeqThreads |-> IdleThread ]
  /\ tokens = << >>
  /\ log = << >>
  /\ sent = {}
  /\ upd = IdleUpdate
  /\ ucalls = << >>
  /\ nupd = 0

\* The state after a module load with every variable set, with threads T.
Loaded(T) ==
  /\ env_dict = AllEnv
  /\ spc = "serving"
  /\ checkIdx = Len(env_vars) + 1
  /\ startupError = ""
  /\ now = 0
  /\ uuidCount = 1
  /\ header_data = HeaderData(AllEnv)
  /\ payload_data = PayloadData(AllEnv, 0, 1)
  /\ twilioClient = TRUE
  /\ nreq = 0
  /\ nbatch = 0
  /\ th = [ t \in T |-> IdleThread ]
  /\ tokens = << >>
  /\ log = << >>
  /\ sent = {}
  /\ upd = IdleUpdate
  /\ ucalls = << >>
  /\ nupd = 0

\* The application: module load, then requests one after the other.
Next ==
  \/ CheckPresent
  \/ CheckMissing
  \/ BuildClaims
  \/ CreateClient
  \/ AppRun
  \/ Tick
  \/ \E t \in DOMAIN th : Accept(t)
  \/ \E t \in DOMAIN th : Index(t)
  \/ \E t \in DOMAIN th : BroadcastEncode(t)
  \/ \E t \in DOMAIN th : BroadcastDecode(t)
  \/ \E t \in DOMAIN th : BroadcastGet(t)
  \/ \E t \in DOMAIN th : BroadcastOther(t)
  \/ \E t \in DOMAIN th : NotifyOpen(t)
  \/ \E t \in DOMAIN th : NotifySignIn(t)
  \/ \E t \in DOMAIN th : NotifyGet(t)
  \/ \E t \in DOMAIN th : NotifyLoopBody(t)
  \/ \E t \in DOMAIN th : NotifySms(t)
  \/ \E t \in DOMAIN th : NotifySmsLog(t)
  \/ \E t \in DOMAIN th : NotifyWhatsapp(t)
  \/ \E t \in DOMAIN th : NotifyWhatsappLog(t)
  \/ \E t \in DOMAIN th : NotifyCall(t)
  \/ \E t \in DOMAIN th : NotifyCallLog(t)
  \/ \E t \in DOMAIN th : NotifyLoopEnd(t)
  \/ \E t \in DOMAIN th : NotifySignOut(t)
  \/ \E t \in DOMAIN th : NotifyClose(t)
  \/ \E t \in DOMAIN th : NotifyRawWrite(t)
  \/ \E t \in DOMAIN th : NotifyReturn(t)
  \/ \E t \in DOMAIN th : NotifyGetMethod(t)
  \/ \E t \in DOMAIN th : NotifyOther(t)

Spec == Init /\ [][Next]_vars

\* The module load, then requests to the index.
StartupNext ==
  \/ CheckPresent
  \/ CheckMissing
  \/ BuildClaims
  \/ CreateClient
  \/ AppRun
  \/ \E t \in DOMAIN th : AcceptIndex(t)
  \/ \E t \in DOMAIN th : Index(t)

SpecStartup == Init /\ [][StartupNext]_vars

\* The notifier: POST /notifier requests handled one after the other.
BatchNext ==
  \/ \E t \in DOMAIN th : AcceptBatch(t)
  \/ \E t \in DOMAIN th : NotifyOpen(t)
  \/ \E t \in DOMAIN th : NotifySignIn(t)
  \/ \E t \in DOMAIN th : NotifyGet(t)
  \/ \E t \in DOMAIN th : NotifyLoopBody(t)
  \/ \E t \in DOMAIN th : NotifySms(t)
  \/ \E t \in DOMAIN th : NotifySmsLog(t)
  \/ \E t \in DOMAIN th : NotifyWhatsapp(t)
  \/ \E t \in DOMAIN th : NotifyWhatsappLog(t)
  \/ \E t \in DOMAIN th : NotifyCall(t)
  \/ \E t \in DOMAIN th : NotifyCallLog(t)
  \/ \E t \in DOMAIN th : NotifyLoopEnd(t)
  \/ \E t \in DOMAIN th : NotifySignOut(t)
  \/ \E t \in DOMAIN th : NotifyClose(t)
  \/ \E t \in DOMAIN th : NotifyRawWrite(t)
  \/ \E t \in DOMAIN th : NotifyReturn(t)

SpecBatch == Loaded(SeqThreads) /\ [][BatchNext]_vars

\* Two workers, each handling a POST /notifier, interleaved statement by
\* statement.
ConcNext ==
  \/ \E t \in DOMAIN th : AcceptNotifierPost(t)
  \/ \E t \in DOMAIN th : NotifyOpen(t)
  \/ \E t \in DOMAIN th : NotifySignIn(t)
  \/ \E t \in DOMAIN th : NotifyGetConc(t)
  \/ \E t \in DOMAIN th : NotifyLoopBody(t)
  \/ \E t \in DOMAIN th : NotifySms(t)
  \/ \E t \in DOMAIN th : NotifySmsLog(t)
  \/ \E t \in DOMAIN th : NotifyWhatsapp(t)
  \/ \E t \in DOMAIN th : NotifyWhatsappLog(t)
  \/ \E t \in DOMAIN th : NotifyCall(t)
  \/ \E t \in DOMAIN th : NotifyCallLog(t)
  \/ \E t \in DOMAIN th : NotifyLoopEnd(t)
  \/ \E t \in DOMAIN th : NotifySignOut(t)
  \/ \E t \in DOMAIN th : NotifyClose(t)
  \/ \E t \in DOMAIN th : NotifyRawWrite(t)
  \/ \E t \in DOMAIN th : NotifyReturn(t)

SpecConc == Loaded(ConcThreads) /\ [][ConcNext]_vars

\* The Broadcast Updater, called from outside the application.
UpdateNext ==
  \/ InvokeUpdate
  \/ UpdateEncode
  \/ UpdateAuth
  \/ UpdateGetBroadcasts
  \/ UpdateBroadcast

SpecUpdate == Loaded(SeqThreads) /\ [][UpdateNext]_vars

(***************************************************************************)
(* Properties.                                                             *)
(***************************************************************************)
Threads == DOMAIN th

\* Worker t holds the response of a finished request.
Finished(t) == th[t].pc = "done"

\* The lines of request rid in the file, in file order.
RECURSIVE LinesOf(_, _)
LinesOf(lg, rid) ==
  IF lg = << >> THEN << >>
  ELSE IF Head(lg).rid = rid THEN << Head(lg) >> \o LinesOf(Tail(lg), rid)
  ELSE LinesOf(Tail(lg), rid)

\* The required variables that are not set.
Missing == { i \in 1..Len(env_vars) : env_vars[i] \notin DOMAIN env_dict }

\* The first of them in the order of the list.
FirstMissing == CHOOSE i \in Missing : \A j \in Missing : i <= j

\* C7: the 14 required variables are checked in their listed order before
\* anything else is built: a failed start names the first missing variable
\* and has built no token claims, created no vendor client and served no
\* request; the load passes the check only with all 14 set.
C7_StartupCheck ==
  /\ Len(env_vars) = 14
  /\ spc = "check" =>
       /\ \A j \in 1..(checkIdx - 1) : j \notin Missing
       /\ startupError = ""
  /\ spc = "aborted" =>
       /\ Missing # {}
       /\ startupError = env_vars[FirstMissing]
  /\ spc \in { "check", "aborted" } =>
       /\ payload_data = None
       /\ header_data = None
       /\ ~twilioClient
       /\ nreq = 0
  /\ spc \notin { "check", "aborted" } => Missing = {}

\* C7, its case: a start with exactly one variable missing, the fifth, has
\* aborted naming it.
C7_Witness ==
  /\ spc = "aborted"
  /\ Missing = { 5 }
  /\ startupError = "TABLEAU_CA_SECRET_ID"

\* C1: any two tokens issued by the process carry different jti values,
\* different expiry timestamps when issued at different times, and each
\* expires TTL after its own issuance.
C1_FreshClaimsPerToken ==
  \A i, j \in 1..Len(tokens) :
    i # j =>
      /\ tokens[i].token.payload.jti # tokens[j].token.payload.jti
      /\ tokens[i].at # tokens[j].at =>
           tokens[i].token.payload.exp # tokens[j].token.payload.exp
      /\ tokens[i].token.payload.exp = tokens[i].at + TTL

\* C2: every POST /broadcast, whenever it arrives, decodes the token it has
\* just signed, gets back the subject, issuer and scope list it signed, and
\* answers "200 SUCCESS".
C2_RoundTripAlwaysSucceeds ==
  \A t \in Threads :
    (Finished(t) /\ th[t].route = "/broadcast" /\ th[t].method = "POST") =>
      /\ th[t].decoded.ok
      /\ th[t].decoded.claims.sub = payload_data.sub
      /\ th[t].decoded.claims.iss = payload_data.iss
      /\ th[t].decoded.claims.scp = payload_data.scp
      /\ th[t].resp = Success

\* C3: a POST /broadcast that answered "200 SUCCESS" has called the Broadcast
\* Updater, once for each token issued.
C3_UpdaterCalledOnPost ==
  \A t \in Threads :
    ( /\ Finished(t)
      /\ th[t].route = "/broadcast"
      /\ th[t].method = "POST"
      /\ th[t].resp = Success ) =>
      /\ nupd = Len(tokens)
      /\ \E k \in 1..Len(ucalls) : ucalls[k].op = "update_broadcast"

\* Request rid has issued no token, written no log line and made no vendor
\* call, and worker t has no session and no open file.
NoSideEffect(t) ==
  /\ \A k \in 1..Len(tokens) : tokens[k].rid # th[t].rid
  /\ LinesOf(log, th[t].rid) = << >>
  /\ SentBy(th[t].rid) = {}
  /\ ~th[t].signedIn
  /\ ~th[t].open
  /\ th[t].buf = << >>
  /\ th[t].bin = << >>
  /\ th[t].wq = << >>

\* C6: on /broadcast and /notifier a GET is redirected to "/" without side
\* effect, and a PUT or DELETE reaches the handler and gets its body
\* "400 Bad Request: method not supported" with status 200, without side
\* effect.
C6_MethodDispatch ==
  \A t \in Threads :
    (Finished(t) /\ th[t].route \in { "/broadcast", "/notifier" }) =>
      /\ th[t].method = "GET" =>
           /\ th[t].resp = RedirectIndex
           /\ NoSideEffect(t)
      /\ th[t].method \in { "PUT", "DELETE" } =>
           /\ th[t].entered
           /\ th[t].resp = MethodNotSupported
           /\ NoSideEffect(t)

\* The three channels of a data source, in the order of the loop body.
Channels == << "sms", "whatsapp", "call" >>

ChannelIndex(c) == CHOOSE k \in 1..3 : Channels[k] = c

\* Sender and recipient each channel is to use.
ChannelFrom(c) ==
  IF c = "whatsapp" THEN EnvValue("WHATSAPP_FROM")
  ELSE EnvValue("TWILIO_FROM_NUMBER")

ChannelTo(c) ==
  IF c = "whatsapp" THEN EnvValue("WHATSAPP_TO")
  ELSE EnvValue("TWILIO_TO_NUMBER")

\* The m-th call of a request over the listing ds: data source and channel.
CallSource(ds, m) == ds[((m - 1) \div 3) + 1]
CallChannel(m) == Channels[((m - 1) % 3) + 1]

\* The first m calls of request rid over the listing ds.
FirstCalls(rid, ds, m) ==
  { VendorCall(rid, CallChannel(k), CallSource(ds, k),
               ChannelFrom(CallChannel(k)), ChannelTo(CallChannel(k)),
               << rid, k >>) : k \in 1..m }

\* The log lines that go with the first m calls: the header, then for each
\* data source reached its block, with an SID line for each call made.
RECURSIVE FirstLines(_, _, _, _)
FirstLines(rid, ds, m, k) ==
  IF k > m THEN << >>
  ELSE (IF k % 3 = 1
          THEN << LogLine(rid, "datasource", CallSource(ds, k), 0, NoSid) >>
          ELSE << >>)
       \o << LogLine(rid, CallChannel(k), CallSource(ds, k), 0, << rid, k >>) >>
       \o FirstLines(rid, ds, m, k + 1)

Header(rid, total) == << LogLine(rid, "header", 0, total, NoSid) >>

\* The blocks among a request's lines: the header and the data sources.
Blocks(lines) ==
  { k \in 1..Len(lines) : lines[k].kind \in { "header", "datasource" } }

\* Worker t has finished a POST /notifier.
FinishedBatch(t) ==
  Finished(t) /\ IsBatch(th[t].route, th[t].method)

\* The first exception raised in worker t's request.
FirstFailure(t) ==
  IF th[t].failed.cstep = "" THEN Failure(th[t].failed.ds, th[t].failed.step)
  ELSE Failure(th[t].failed.cds, th[t].failed.cstep)

\* Worker t's request got its listing and every send of it succeeded.
AllSendsSucceeded(t) ==
  FirstFailure(t).step \in { "", "sign_out" }

\* What a batch over N items whose sends all succeeded has done: 3N vendor
\* calls (SMS, chat message, voice call for each item in turn), the header
\* and one block per item appended.
BatchDone(t) ==
  LET rid == th[t].rid
      N == Len(th[t].ds)
      lines == LinesOf(log, rid)
  IN  /\ Cardinality(SentBy(rid)) = 3 * N
      /\ SentBy(rid) = FirstCalls(rid, th[t].ds, 3 * N)
      /\ lines = Header(rid, th[t].total)
                   \o FirstLines(rid, th[t].ds, 3 * N, 1)
      /\ Cardinality(Blocks(lines)) = N + 1
      /\ N = 0 => (Len(lines) = 1 /\ SentBy(rid) = {})

\* C4: a POST /notifier whose listing returned N items and in which every
\* send succeeded has made exactly 3N vendor calls (SMS, chat message, voice
\* call for each item in turn), has appended the header and one block per
\* item, N+1 blocks, and answers "200 SUCCESS"; with N = 0 the log has the
\* header alone and no call was made.
C4_BatchCounts ==
  \A t \in Threads :
    (FinishedBatch(t) /\ AllSendsSucceeded(t)) =>
      /\ BatchDone(t)
      /\ th[t].resp = Success

\* C4, amended: a POST /notifier whose listing returned N items and in which
\* every send succeeded has made exactly 3N vendor calls in order and has
\* appended the header and N blocks; it answers "200 SUCCESS" when the
\* sign-out that ends the session succeeded too, and ends with the error of
\* the sign-out when that raised.
C4_BatchCountsSignOut ==
  \A t \in Threads :
    (FinishedBatch(t) /\ AllSendsSucceeded(t)) =>
      /\ BatchDone(t)
      /\ th[t].failed = NoFailure => th[t].resp = Success
      /\ th[t].failed # NoFailure =>
           /\ th[t].failed = Failure(0, "sign_out")
           /\ th[t].resp = ServerError

\* C4, its case: a batch over a full page has finished with every call made
\* and the session signed out.
C4_Witness ==
  \E t \in Threads :
    /\ FinishedBatch(t)
    /\ th[t].failed = NoFailure
    /\ ~th[t].signedIn
    /\ Len(th[t].ds) = PageSize
    /\ Cardinality(SentBy(th[t].rid)) = 3 * PageSize

\* The data sources of request rid that got all three notifications.
Notified(rid) ==
  { d \in 1..MaxSources :
      \A c \in { "sms", "whatsapp", "call" } :
        \E v \in SentBy(rid) : v.channel = c /\ v.body.msg = MsgStr(d) }

\* C5: a POST /notifier that answered "200 SUCCESS" has notified as many
\* data sources as the total its header line states, whatever the size of
\* the site.
C5_AllSourcesNotified ==
  \A t \in Threads :
    (FinishedBatch(t) /\ th[t].resp = Success) =>
      LET lines == LinesOf(log, th[t].rid)
      IN  /\ lines # << >>
          /\ lines[1].kind = "header"
          /\ Cardinality(Notified(th[t].rid)) = lines[1].total

\* The number of the call that raised in worker t's request.
FailedCall(t) == 3 * (th[t].i - 1) + ChannelIndex(FirstFailure(t).step)

\* C9: when the k-th vendor call of a POST /notifier raises, exactly the k-1
\* calls before it were made, the log holds the header, the data-source
\* lines and the SID lines of those calls and no SID line of the k-th, no
\* later call is made, and the request ends with the error.
C9_PartialBatch ==
  \A t \in Threads :
    ( /\ FinishedBatch(t)
      /\ FirstFailure(t).step \in { "sms", "whatsapp", "call" } ) =>
      LET rid == th[t].rid
          k == FailedCall(t)
          lines == LinesOf(log, rid)
      IN  /\ FirstFailure(t).ds = th[t].ds[th[t].i]
          /\ SentBy(rid) = FirstCalls(rid, th[t].ds, k - 1)
          /\ Cardinality(SentBy(rid)) = k - 1
          /\ lines = Header(rid, th[t].total)
                       \o FirstLines(rid, th[t].ds, k - 1, 1)
                       \o (IF k % 3 = 1
                             THEN << LogLine(rid, "datasource",
                                             FirstFailure(t).ds, 0, NoSid) >>
                             ELSE << >>)
          /\ \A n \in 1..Len(lines) : lines[n].sid # << rid, k >>
          /\ th[t].resp = ServerError
          /\ th[t].resp # Success
          /\ ~th[t].open

\* C9, its case: the fifth call (the chat message of the second data source)
\* raised after four calls were made, and the request has ended.
C9_Witness ==
  \E t \in Threads :
    /\ FinishedBatch(t)
    /\ th[t].failed = Failure(2, "whatsapp")
    /\ th[t].resp = ServerError
    /\ Cardinality(SentBy(th[t].rid)) = 4

\* The statement worker t is at, or goes on at after the system calls of
\* the one it is in.
At(t) == IF th[t].pc = "n_write" THEN th[t].after ELSE th[t].pc

\* The positions of notify inside the with block of the file.
OpenPcs ==
  { "n_signin", "n_get", "n_loop", "n_sms", "n_sms_log", "n_whatsapp",
    "n_whatsapp_log", "n_call", "n_call_log", "n_signout", "n_close",
    "n_write", "n_end" }

\* The positions of notify after the blocks' body: the exits and the end.
ExitPcs == { "n_signout", "n_close", "n_end", "done" }

\* The calls worker t's request has made so far, by its position.
CallsMade(t) ==
  LET full == 3 * (th[t].i - 1)
  IN  CASE At(t) \in { "n_loop", "n_sms" } -> full
        [] At(t) \in { "n_sms_log", "n_whatsapp" } -> full + 1
        [] At(t) \in { "n_whatsapp_log", "n_call" } -> full + 2
        [] At(t) = "n_call_log" -> full + 3
        [] At(t) \in ExitPcs /\ FirstFailure(t).step \in { "", "sign_out" }
             -> IF IsBatch(th[t].route, th[t].method) THEN full ELSE 0
        [] At(t) \in ExitPcs
             /\ FirstFailure(t).step \in { "sms", "whatsapp", "call" }
             -> FailedCall(t) - 1
        [] OTHER -> 0

\* The calls of worker t's request whose SID line is written: all it made
\* but the one that has just returned.
CallsLogged(t) ==
  IF At(t) \in { "n_sms_log", "n_whatsapp_log", "n_call_log" }
    THEN CallsMade(t) - 1
    ELSE CallsMade(t)

\* Whether worker t's request has written the block line of the data source
\* it is at, with no SID line for it written yet.
AtBlockStart(t) ==
  \/ At(t) \in { "n_sms", "n_sms_log" }
  \/ At(t) \in ExitPcs /\ FirstFailure(t).step = "sms"

\* Whether worker t's request has written its header.
HeaderWritten(t) ==
  \/ At(t) \in { "n_loop", "n_sms", "n_sms_log", "n_whatsapp",
                 "n_whatsapp_log", "n_call", "n_call_log" }
  \/ /\ At(t) \in ExitPcs
     /\ IsBatch(th[t].route, th[t].method)
     /\ FirstFailure(t).step \notin { "sign_in", "get" }

\* Everything worker t's request has written with logFile.write, in order.
Written(t) ==
  IF ~HeaderWritten(t) THEN << >>
  ELSE Header(th[t].rid, th[t].total)
       \o FirstLines(th[t].rid, th[t].ds, CallsLogged(t), 1)
       \o (IF AtBlockStart(t)
             THEN << LogLine(th[t].rid, "datasource", th[t].ds[th[t].i], 0,
                             NoSid) >>
             ELSE << >>)

\* The texts of a sequence of texts, one after the other.
RECURSIVE Flatten(_)
Flatten(q) == IF q = << >> THEN << >> ELSE Head(q) \o Flatten(Tail(q))

\* What worker t's handle holds: the texts of the system calls still to be
\* made, the buffer, the pending text.
InHandle(t) == Flatten(th[t].wq) \o th[t].bin \o th[t].buf

\* C10: each POST /notifier appends through a handle of its own and has
\* closed it when it ends; with two requests running at once nothing a
\* request has written is lost or overwritten: its lines are in the file, in
\* the order written, followed by what its handle still holds, the calls it
\* made are those its position implies, and the file holds nothing else.
C10_NoLineLost ==
  /\ \A t \in Threads :
       /\ th[t].pc \in { "idle", "done" } =>
            (~th[t].open /\ InHandle(t) = << >>)
       /\ th[t].pc \in OpenPcs => th[t].open
       /\ th[t].rid # 0 =>
            /\ LinesOf(log, th[t].rid) \o InHandle(t) = Written(t)
            /\ Cardinality(SentBy(th[t].rid)) = CallsMade(t)
  /\ \A n \in 1..Len(log) : \E t \in Threads : th[t].rid = log[n].rid

\* C10, its case: in the file a block of one request lies between two blocks
\* of the other.
C10_Witness ==
  \E a, b, c \in 1..Len(log) :
    /\ a < b
    /\ b < c
    /\ log[a].rid = log[c].rid
    /\ log[a].rid # log[b].rid
    /\ log[a].kind \in { "header", "datasource" }
    /\ log[b].kind \in { "header", "datasource" }
    /\ log[c].kind \in { "header", "datasource" }

\* The calls invocation n of update made to libs, in order.
RECURSIVE CallsOf(_, _)
CallsOf(calls, n) ==
  IF calls = << >> THEN << >>
  ELSE IF Head(calls).n = n THEN << Head(calls) >> \o CallsOf(Tail(calls), n)
  ELSE CallsOf(Tail(calls), n)

UpdateSteps == << "encode", "auth", "get_broadcasts", "update_broadcast" >>

\* C8: update calls encode, auth, get_broadcasts and update_broadcast in this
\* order, each at most once and each with the results of the calls before
\* it; the last one gets the broadcasts fetched, the workbook id given and
\* False, False.  A call that raises ends update: it is the last call made,
\* and update_broadcast is only called after auth and get_broadcasts
\* returned.
C8_UpdateSequence ==
  \A n \in 1..nupd :
    LET mine == CallsOf(ucalls, n)
    IN  /\ Len(mine) <= 4
        /\ \A k \in 1..Len(mine) : mine[k].op = UpdateSteps[k]
        /\ n = nupd =>
             /\ Len(mine) >= 1 => mine[1].args = << env_dict >>
             /\ Len(mine) >= 2 => mine[2].args = << env_dict, upd.jwt >>
             /\ Len(mine) >= 3 => mine[3].args = << upd.api_key >>
             /\ Len(mine) = 4 =>
                  /\ mine[4].args[1] = upd.api_key
                  /\ mine[4].args[2] = upd.broadcasts
                  /\ mine[4].args[3] = upd.workbook_id
                  /\ mine[4].args[4] = FALSE
                  /\ mine[4].args[5] = FALSE
                  /\ Len(mine[4].args) = 5
             /\ upd.pc = "returned" => (Len(mine) = 4 /\ upd.raisedBy = "")
             /\ upd.pc = "raised" =>
                  /\ Len(mine) >= 1
                  /\ mine[Len(mine)].op = upd.raisedBy
             /\ upd.raisedBy # "" => upd.pc = "raised"

\* C8, its case: update has returned after calling update_broadcast for the
\* workbook it was given.
C8_Witness ==
  /\ upd.pc = "returned"
  /\ upd.workbook_id = "wb2"
  /\ \E k \in 1..Len(ucalls) :
       /\ ucalls[k].op = "update_broadcast"
       /\ ucalls[k].n = nupd
       /\ ucalls[k].args[3] = "wb2"

=============================================================================
